---- MODULE Spec2Model ----
(***************************************************************************)
(* The asynchronous notification delivery engine of the task manager:      *)
(* NotificationService (bounded queue, worker pool, Stop) and its workers, *)
(* from internal/notifications/notification_service.go, with the callers   *)
(* that feed it: NotificationManager.CreateTaskReminder and the Scheduler's  *)
(* periodic sweep over the task repository.                                *)
(*                                                                         *)
(* A notification is a heap object shared by pointer: the queue holds ids  *)
(* and notif[id] holds the fields, so that two goroutines holding the same *)
(* pointer are visible in the state.                                       *)
(*                                                                         *)
(* Time is discrete.  The program only ever sets an instant relative to    *)
(* time.Now() and waits for it, so ScheduledAt is kept relative to the     *)
(* clock: the time still to pass until it, 0 once it has been reached.     *)
(* A task's due date is relative too, negative once it has passed.         *)
(* SentAt is kept as "set", CreatedAt by where its instant comes from;     *)
(* UpdatedAt, which nothing reads, is left out.                            *)
(*                                                                         *)
(* The workers are identical goroutines (nw.id is only logged), so the     *)
(* pool is a bag of worker states rather than an array of named workers.   *)
(***************************************************************************)
EXTENDS Integers, Sequences, FiniteSets, Bags, TLC

\* ----- bounds of the model ------------------------------------------------
MaxNotifs == 2          \* notifications created by callers
MaxWorkers == 2         \* config.WorkerCount ranges over 1..MaxWorkers
MaxBatchSize == 1       \* config.BatchSize ranges over 1..MaxBatchSize
MaxRetriesBound == 1    \* config.MaxRetries ranges over 0..MaxRetriesBound
MaxRetryDelay == 1      \* config.RetryDelay is 0 or MaxRetryDelay
MaxDelay == 1           \* a reminder is scheduled 0..MaxDelay from now
MaxTasks == 2           \* tasks in the repository
MaxUsers == 1           \* users in the repository

Ids == 1..MaxNotifs
NoId == 0

\* A nil *time.Time.
NoTime == -1

\* The values of CreatedAt: the zero time.Time, an instant the caller put
\* there, and an instant the service read from time.Now().
ZeroTime == "zero"
CallerInstant == "caller"
ServiceInstant == "time.Now()"

\* ----- notification model (models.go part of notification_service.go) -----
TypeEmail == "email"
TypeInApp == "in_app"
TypeSMS == "sms"
TypeWebhook == "webhook"
TypeSlack == "slack"
TypeDiscord == "discord"

TriggerDueDate == "due_date"
TriggerOverdue == "overdue"

StatusPending == "pending"
StatusSent == "sent"
StatusFailed == "failed"

\* The MaxRetries of a high priority reminder.
HighPriorityMaxRetries == 5

\* A Notification as a caller constructs it: every field the caller does not
\* set has Go's zero value.
Notification(type, recipient, retryCount, maxRetries) ==
    [Type |-> type, Recipient |-> recipient, Status |-> "",
     RetryCount |-> retryCount, MaxRetries |-> maxRetries,
     Error |-> "", CreatedAt |-> ZeroTime, ScheduledAt |-> NoTime,
     SentAt |-> FALSE, UserID |-> 0, TaskID |-> 0, Trigger |-> ""]

NoNotification == Notification("", "", 0, 0)

\* The notifications callers hand to SendNotification:
\*  - an email without a recipient, as every builder of the task manager
\*    makes it, MaxRetries unset (0, so that the configured default applies);
\*  - an email with a recipient that is handed in again after three failed
\*    attempts (RetryCount is an exported field that SendNotification takes
\*    as it comes), with the retries of a high priority reminder and the
\*    CreatedAt it already has;
\*  - a type outside the supported set (NotificationType is a string the
\*    caller chooses), MaxRetries unset.
NotificationInputs ==
    {Notification(TypeEmail, "", 0, 0),
     [Notification(TypeEmail, "test@example.com", 3, HighPriorityMaxRetries)
          EXCEPT !.CreatedAt = CallerInstant],
     Notification("fax", "", 0, 0)}

VARIABLES
    config,     \* NotificationConfig: WorkerCount, BatchSize, MaxRetries, RetryDelay
    notif,      \* id -> the Notification object behind the pointer
    nextId,     \* the next notification a caller creates
    queue,      \* ns.queue: the buffered channel's contents (ids, FIFO)
    closed,     \* ns.queue has been closed
    cancelled,  \* ns.ctx is cancelled (ctx.Done() is closed)
    pool,       \* the bag of the workers' states (position, notification held)
    stopPc,     \* position of the Stop() call
    timers,     \* notifications whose deferred goroutine is still sleeping
    panicked,   \* an unrecovered panic has ended the process
    result,     \* id -> what its SendNotification call returned
    schedResult, \* id -> what its ScheduleNotification call returned
    afterStop,  \* ids whose SendNotification call began after Stop() had returned
    enq,        \* id -> number of times it was put on the queue
    deq,        \* id -> number of times a worker received it
    attempts,   \* id -> number of channel sender invocations
    status,     \* what the last GetQueueStatus call returned
    tasks,      \* the repository: task id -> task row
    reminderResult, \* what the last NotificationManager.CreateTaskReminder returned
    schedPc,    \* position of the Scheduler's goroutine
    schedRows,  \* the rows the running sweep still has to go through
    schedCancelled  \* s.ctx is cancelled

\* What lies around the service: the status reader, the repository, the
\* NotificationManager and the Scheduler.
collaborators ==
    <<status, tasks, reminderResult, schedPc, schedRows, schedCancelled>>

vars == <<config, notif, nextId, queue, closed, cancelled, pool, stopPc,
          timers, panicked, result, schedResult, afterStop, enq, deq, attempts,
          collaborators>>

\* A worker's state: its position in start/processNotification and the
\* notification it holds (NoId if none).
Worker(pc, id) == [pc |-> pc, cur |-> id]

\* A worker waiting in the select of start.
Idle == Worker("select", NoId)

\* A worker that has returned from start (and called wg.Done).
Exited == Worker("exited", NoId)

\* The number of workers that hold notification id.
Holders(id) ==
    CopiesIn(Worker("send", id), pool) + CopiesIn(Worker("requeue", id), pool)
        + CopiesIn(Worker("final", id), pool)

InQueue(id) == \E i \in 1..Len(queue) : queue[i] = id

Occurrences(id) == Cardinality({i \in 1..Len(queue) : queue[i] = id})

\* ----- NewNotificationService / startWorkers ------------------------------
ServiceInit ==
    /\ config \in [WorkerCount : 1..MaxWorkers, BatchSize : 1..MaxBatchSize,
                   MaxRetries : 0..MaxRetriesBound, RetryDelay : {0, MaxRetryDelay}]
    /\ notif = [id \in Ids |-> NoNotification]
    /\ nextId = 1
    /\ queue = <<>>
    /\ closed = FALSE
    /\ cancelled = FALSE
    /\ pool = [s \in {Idle} |-> config.WorkerCount]
    /\ stopPc = "idle"
    /\ timers = {}
    /\ panicked = FALSE
    /\ result = [id \in Ids |-> "none"]
    /\ schedResult = [id \in Ids |-> "none"]
    /\ afterStop = {}
    /\ enq = [id \in Ids |-> 0]
    /\ deq = [id \in Ids |-> 0]
    /\ attempts = [id \in Ids |-> 0]

\* A GetQueueStatus result as long as there was no call (no service has 0
\* workers).
NoStatus == [queue_length |-> 0, worker_count |-> 0, is_running |-> FALSE]

\* Nobody has called GetQueueStatus or the NotificationManager, and the
\* Scheduler is constructed (its context live) but not started.
CollaboratorsInit ==
    /\ status = NoStatus
    /\ reminderResult = "none"
    /\ schedPc = "new"
    /\ schedRows = <<>>
    /\ schedCancelled = FALSE

\* The service on its own: the repository holds no task.
Init ==
    /\ ServiceInit
    /\ CollaboratorsInit
    /\ tasks = [t \in {} |-> 0]

\* ----- channel senders -----------------------------------------------------
\* Each sender returns its error message, "" for nil.
sendEmail(n) ==
    IF n.RetryCount > 0 /\ n.RetryCount % 3 = 0
    THEN "simulated email sending failure" ELSE ""

sendInApp(n) == ""

sendSMS(n) == ""

sendWebhook(n) == ""

sendSlack(n) == ""

sendDiscord(n) == ""

\* The types the switch of processNotification has a case for.
SupportedTypes ==
    {TypeEmail, TypeInApp, TypeSMS, TypeWebhook, TypeSlack, TypeDiscord}

\* The switch on notification.Type of processNotification.
Dispatch(n) ==
    CASE n.Type = TypeEmail -> sendEmail(n)
      [] n.Type = TypeInApp -> sendInApp(n)
      [] n.Type = TypeSMS -> sendSMS(n)
      [] n.Type = TypeWebhook -> sendWebhook(n)
      [] n.Type = TypeSlack -> sendSlack(n)
      [] n.Type = TypeDiscord -> sendDiscord(n)
      [] OTHER -> "unsupported notification type"

\* The status update of processNotification: the notification after the
\* attempt that returned err.
UpdateStatus(n, err) ==
    IF err # ""
    THEN LET failed == [n EXCEPT !.Status = StatusFailed, !.Error = err,
                                 !.RetryCount = n.RetryCount + 1]
         IN  IF failed.RetryCount < failed.MaxRetries
             THEN [failed EXCEPT !.Status = StatusPending,
                                 !.ScheduledAt = config.RetryDelay]
             ELSE failed
    ELSE [n EXCEPT !.Status = StatusSent, !.SentAt = TRUE]

\* (mutant) every failed attempt is retried, the last one too.
RetriesEveryFailure(n, err) == err # ""

\* (mutant) a delivered notification is put back on the queue as well.
RetriesDelivered(n, err) == err = "" \/ n.RetryCount + 1 < n.MaxRetries

\* Whether processNotification puts the notification back on the queue:
\* the attempt failed and the incremented RetryCount is under MaxRetries.
Retries(n, err) == err # "" /\ n.RetryCount + 1 < n.MaxRetries

\* ----- NotificationService.SendNotification -------------------------------
\* (mutant) the configured MaxRetries replaces the caller's.
ApplyDefaultsOverwrite(n) ==
    [n EXCEPT !.MaxRetries = config.MaxRetries,
              !.CreatedAt = IF @ = ZeroTime THEN ServiceInstant ELSE @]

\* The defaults SendNotification writes before it queues the notification.
ApplyDefaults(n) ==
    [n EXCEPT !.MaxRetries = IF @ = 0 THEN config.MaxRetries ELSE @,
              !.CreatedAt = IF @ = ZeroTime THEN ServiceInstant ELSE @]

\* (mutant) the capacity test off by one: a full buffer still takes a send.
SendReadyOffByOne == closed \/ Len(queue) <= config.BatchSize

\* A send on the channel can proceed: the buffer has room (a receiver that is
\* already waiting implies an empty buffer), or the channel is closed, in
\* which case proceeding is a panic.
SendReady == closed \/ Len(queue) < config.BatchSize

\* SendNotification on the notification n behind pointer id: the defaults,
\* then the select.  Go picks among the ready cases at random; default runs
\* only when none is ready.
SendNotification(id, n) ==
    /\ notif' = [notif EXCEPT ![id] = ApplyDefaults(n)]
    /\ afterStop' = IF stopPc = "done" THEN afterStop \cup {id} ELSE afterStop
    /\ \/ /\ SendReady /\ ~closed
          /\ queue' = Append(queue, id)
          /\ enq' = [enq EXCEPT ![id] = @ + 1]
          /\ result' = [result EXCEPT ![id] = "ok"]
          /\ UNCHANGED panicked
       \/ /\ SendReady /\ closed
          /\ panicked' = TRUE
          /\ result' = [result EXCEPT ![id] = "panic"]
          /\ UNCHANGED <<queue, enq>>
       \/ /\ cancelled
          /\ result' = [result EXCEPT ![id] = "stopped"]
          /\ UNCHANGED <<queue, enq, panicked>>
       \/ /\ ~SendReady /\ ~cancelled
          /\ result' = [result EXCEPT ![id] = "full"]
          /\ UNCHANGED <<queue, enq, panicked>>

\* A caller builds a notification and submits it at once
\* (CreateOverdueReminder, CreateStatusChangeNotification,
\* CreateCustomNotification, or SendNotification directly).
CallerSend(n) ==
    /\ ~panicked
    /\ nextId <= MaxNotifs
    /\ nextId' = nextId + 1
    /\ SendNotification(nextId, n)
    /\ UNCHANGED <<collaborators, config, closed, cancelled, pool, stopPc, timers,
                   schedResult, deq, attempts>>

\* ----- NotificationService.ScheduleNotification ---------------------------
\* (mutant) the goroutine that sleeps and submits is not started.
ScheduleNotificationNoTimer(id, n, scheduledAt) ==
    /\ notif' = [notif EXCEPT ![id] = [n EXCEPT !.ScheduledAt = scheduledAt,
                                                 !.Status = StatusPending,
                                                 !.CreatedAt = ServiceInstant]]
    /\ timers' = timers
    /\ schedResult' = [schedResult EXCEPT ![id] = "ok"]

\* Writes ScheduledAt, Status and the timestamps, starts the goroutine that
\* sleeps until scheduledAt, and returns nil.  scheduledAt is the time from
\* now to the instant the caller passes, 0 if that instant is not in the
\* future.
ScheduleNotification(id, n, scheduledAt) ==
    /\ notif' = [notif EXCEPT ![id] = [n EXCEPT !.ScheduledAt = scheduledAt,
                                                 !.Status = StatusPending,
                                                 !.CreatedAt = ServiceInstant]]
    /\ timers' = timers \cup {id}
    /\ schedResult' = [schedResult EXCEPT ![id] = "ok"]

\* CreateTaskReminder: builds the reminder email, without a recipient and
\* with the configured MaxRetries, and schedules it for reminderTime.
CallerSchedule(reminderTime) ==
    /\ ~panicked
    /\ nextId <= MaxNotifs
    /\ nextId' = nextId + 1
    /\ ScheduleNotification(nextId,
                            Notification(TypeEmail, "", 0, config.MaxRetries),
                            reminderTime)
    /\ UNCHANGED <<collaborators, config, queue, closed, cancelled, pool, stopPc, panicked,
                   result, afterStop, enq, deq, attempts>>

\* (mutant) the deferred goroutine does not sleep.
SleptUntilNoSleep(scheduledAt) == TRUE

\* time.Sleep(time.Until(scheduledAt)) has returned: no time is left to
\* pass until scheduledAt (at once if scheduledAt is not in the future).
SleptUntil(scheduledAt) == scheduledAt = 0

\* The deferred goroutine wakes up and calls SendNotification, whose result
\* it drops; nothing ties it to ns.ctx, so it fires whatever the service's
\* state.
TimerFire(id) ==
    /\ ~panicked
    /\ id \in timers
    /\ SleptUntil(notif[id].ScheduledAt)
    /\ timers' = timers \ {id}
    /\ SendNotification(id, notif[id])
    /\ UNCHANGED <<collaborators, config, nextId, closed, cancelled, pool, stopPc,
                   schedResult, deq, attempts>>

\* ----- time -----------------------------------------------------------------
\* A *time.Time of a task row: <<>> for nil, <<t>> for a pointer to t.
\* One unit later an instant lies one unit closer; one that has passed
\* stays passed (any negative value).
Approach(dueDate) ==
    IF Len(dueDate) = 1 /\ dueDate[1] >= 0 THEN <<dueDate[1] - 1>> ELSE dueDate

\* One unit of time passes: every instant that still lies ahead comes one
\* unit closer.
Tick ==
    /\ ~panicked
    /\ \/ \E id \in Ids : notif[id].ScheduledAt > 0
       \/ \E t \in DOMAIN tasks : Approach(tasks[t].DueDate) # tasks[t].DueDate
    /\ notif' = [id \in Ids |->
                   IF notif[id].ScheduledAt > 0
                   THEN [notif[id] EXCEPT !.ScheduledAt = @ - 1]
                   ELSE notif[id]]
    /\ tasks' = [t \in DOMAIN tasks |->
                   [tasks[t] EXCEPT !.DueDate = Approach(@)]]
    /\ UNCHANGED <<config, nextId, queue, closed, cancelled, pool, stopPc,
                   timers, panicked, result, schedResult, afterStop, enq, deq,
                   attempts, status, reminderResult, schedPc, schedRows,
                   schedCancelled>>

\* ----- NotificationWorker.start / processNotification ---------------------
\* One worker moves from state s to state t.
Becomes(s, t) == pool' = (pool (-) SetToBag({s})) (+) SetToBag({t})

\* (mutant) the receive leaves the notification at the head of the queue.
WorkerReceivePeek ==
    /\ ~panicked
    /\ BagIn(Idle, pool)
    /\ Len(queue) > 0
    /\ LET id == Head(queue)
       IN  /\ Becomes(Idle, Worker("send", id))
           /\ deq' = [deq EXCEPT ![id] = @ + 1]
           /\ notif' = [notif EXCEPT ![id].Status = StatusPending]
    /\ UNCHANGED <<collaborators, config, schedResult, nextId, queue, closed, cancelled, stopPc, timers, panicked,
                   result, afterStop, enq, attempts>>

\* select, case notification := <-nw.queue, and the first writes of
\* processNotification (Status = StatusPending, UpdatedAt).  A receive from
\* the closed and drained queue yields nil at once, and processNotification
\* dereferences it (notification.ID): a nil pointer panic.
WorkerReceive ==
    /\ ~panicked
    /\ BagIn(Idle, pool)
    /\ \/ /\ Len(queue) > 0
          /\ LET id == Head(queue)
             IN  /\ queue' = Tail(queue)
                 /\ Becomes(Idle, Worker("send", id))
                 /\ deq' = [deq EXCEPT ![id] = @ + 1]
                 /\ notif' = [notif EXCEPT ![id].Status = StatusPending]
          /\ UNCHANGED panicked
       \/ /\ Len(queue) = 0
          /\ closed
          /\ panicked' = TRUE
          /\ UNCHANGED <<queue, pool, deq, notif>>
    /\ UNCHANGED <<collaborators, config, schedResult, nextId, closed, cancelled, stopPc, timers,
                   result, afterStop, enq, attempts>>

\* (mutant) the worker also watches ctx.Done() while it holds a notification
\* and returns before the sender call.
WorkerExitMidDelivery ==
    /\ ~panicked
    /\ cancelled
    /\ \E s \in BagToSet(pool) :
          /\ s.pc \in {"select", "send"}
          /\ Becomes(s, Exited)
    /\ UNCHANGED <<collaborators, config, schedResult, notif, nextId, queue, closed, cancelled, stopPc,
                   timers, panicked, result, afterStop, enq, deq, attempts>>

\* select, case <-nw.ctx.Done(): return, and the deferred wg.Done().
WorkerExit ==
    /\ ~panicked
    /\ BagIn(Idle, pool)
    /\ cancelled
    /\ Becomes(Idle, Exited)
    /\ UNCHANGED <<collaborators, config, schedResult, notif, nextId, queue, closed, cancelled, stopPc,
                   timers, panicked, result, afterStop, enq, deq, attempts>>

\* The sender call on notification id and the status update that follows it.
\* When the notification is to be retried the worker goes on to the blocking
\* send that re-queues it; otherwise it writes UpdatedAt, returns from
\* processNotification, drops the pointer and is back at its select.
WorkerDeliver(id) ==
    /\ ~panicked
    /\ BagIn(Worker("send", id), pool)
    /\ LET err == Dispatch(notif[id])
       IN  /\ attempts' = [attempts EXCEPT ![id] = @ + 1]
           /\ notif' = [notif EXCEPT ![id] = UpdateStatus(notif[id], err)]
           /\ IF Retries(notif[id], err)
              THEN Becomes(Worker("send", id), Worker("requeue", id))
              ELSE Becomes(Worker("send", id), Idle)
    /\ UNCHANGED <<collaborators, config, schedResult, nextId, queue, closed, cancelled, stopPc, timers,
                   panicked, result, afterStop, enq, deq>>

\* (mutant) the re-queueing send does not wait for room.
WorkerRequeueNoWait(id) ==
    /\ ~panicked
    /\ BagIn(Worker("requeue", id), pool)
    /\ queue' = Append(queue, id)
    /\ enq' = [enq EXCEPT ![id] = @ + 1]
    /\ Becomes(Worker("requeue", id), Worker("final", id))
    /\ UNCHANGED <<collaborators, config, schedResult, notif, nextId, closed, cancelled, stopPc, timers,
                   panicked, result, afterStop, deq, attempts>>

\* nw.queue <- notification: a plain send, which waits for room in the buffer.
WorkerRequeue(id) ==
    /\ ~panicked
    /\ BagIn(Worker("requeue", id), pool)
    /\ Len(queue) < config.BatchSize
    /\ queue' = Append(queue, id)
    /\ enq' = [enq EXCEPT ![id] = @ + 1]
    /\ Becomes(Worker("requeue", id), Worker("final", id))
    /\ UNCHANGED <<collaborators, config, schedResult, notif, nextId, closed, cancelled, stopPc, timers,
                   panicked, result, afterStop, deq, attempts>>

\* After the re-queueing send: notification.UpdatedAt = time.Now(), the last
\* write of processNotification; the worker then drops the pointer and is
\* back at its select.
WorkerFinish(id) ==
    /\ ~panicked
    /\ BagIn(Worker("final", id), pool)
    /\ Becomes(Worker("final", id), Idle)
    /\ UNCHANGED <<collaborators, config, schedResult, notif, nextId, queue, closed, cancelled, stopPc, timers,
                   panicked, result, afterStop, enq, deq, attempts>>

\* ----- NotificationService.Stop -------------------------------------------
\* ns.cancel(): cancels ns.ctx and with it every worker's context.
StopCancel ==
    /\ ~panicked
    /\ stopPc = "idle"
    /\ cancelled' = TRUE
    /\ stopPc' = "wait"
    /\ UNCHANGED <<collaborators, config, schedResult, notif, nextId, queue, closed, pool, timers, panicked,
                   result, afterStop, enq, deq, attempts>>

\* (mutant) Stop does not wait for the workers.
NoWaitForWorkers == TRUE

\* (mutant) Stop waits for one worker only.
SomeWorkerExited == BagIn(Exited, pool)

\* ns.wg.Wait() returns once every worker has called wg.Done().
AllWorkersExited == CopiesIn(Exited, pool) = config.WorkerCount

\* ns.wg.Wait(), close(ns.queue), and Stop returns.
StopClose ==
    /\ ~panicked
    /\ stopPc = "wait"
    /\ AllWorkersExited
    /\ closed' = TRUE
    /\ stopPc' = "done"
    /\ UNCHANGED <<collaborators, config, schedResult, notif, nextId, queue, cancelled, pool, timers, panicked,
                   result, afterStop, enq, deq, attempts>>

\* Stop() called again on the stopped service: cancel() does nothing,
\* wg.Wait() returns at once and close(ns.queue) closes a closed channel,
\* which panics.
StopAgain ==
    /\ ~panicked
    /\ stopPc = "done"
    /\ panicked' = TRUE
    /\ UNCHANGED <<collaborators, config, schedResult, notif, nextId, queue, closed, cancelled,
                   pool, stopPc, timers, result, afterStop, enq, deq, attempts>>

\* ----- NotificationService.GetQueueStatus ----------------------------------
\* (mutant) only the workers that still run are counted.
RunningWorkers == BagCardinality(pool) - CopiesIn(Exited, pool)

\* len(ns.workers): the slice startWorkers filled; a worker that has
\* returned stays in it.
LenWorkers == BagCardinality(pool)

\* The map GetQueueStatus returns: len(ns.queue), len(ns.workers) and
\* ns.ctx.Err() == nil.
GetQueueStatus ==
    [queue_length |-> Len(queue), worker_count |-> LenWorkers,
     is_running |-> ~cancelled]

\* A caller reads the status.
CallGetQueueStatus ==
    /\ ~panicked
    /\ status' = GetQueueStatus
    /\ UNCHANGED <<config, notif, nextId, queue, closed, cancelled, pool, stopPc,
                   timers, panicked, result, schedResult, afterStop, enq, deq,
                   attempts, tasks, reminderResult, schedPc, schedRows,
                   schedCancelled>>

\* ----- database.Repository -------------------------------------------------
TaskIds == 1..MaxTasks

\* The users table; no code of the notification path reads it.
Users == 1..MaxUsers

\* Task.Status: Pending and Completed.
TaskPending == 0
TaskCompleted == 2

\* A row of the tasks table; DueDate and UserID are pointers (<<>> is nil).
Task(dueDate, userID, taskStatus, isArchived) ==
    [DueDate |-> dueDate, UserID |-> userID, Status |-> taskStatus,
     IsArchived |-> isArchived]

\* The row as a query returns it.
Row(id) == [ID |-> id, DueDate |-> tasks[id].DueDate, UserID |-> tasks[id].UserID]

\* The rows of the tasks ids in ascending (Ascending) or descending order of
\* id.
RECURSIVE Ascending(_)
Ascending(ids) ==
    IF ids = {} THEN <<>>
    ELSE LET id == CHOOSE i \in ids : \A j \in ids : i <= j
         IN  <<Row(id)>> \o Ascending(ids \ {id})

RECURSIVE Descending(_)
Descending(ids) ==
    IF ids = {} THEN <<>>
    ELSE LET id == CHOOSE i \in ids : \A j \in ids : i >= j
         IN  <<Row(id)>> \o Descending(ids \ {id})

\* WHERE due_date < now AND status != 2 AND is_archived = FALSE ORDER BY
\* due_date ASC (the due dates that have passed are not told apart here, so
\* the rows come in the order of their ids).
GetOverdueTasks ==
    Ascending({t \in DOMAIN tasks :
                  /\ Len(tasks[t].DueDate) = 1
                  /\ tasks[t].DueDate[1] < 0
                  /\ tasks[t].Status # TaskCompleted
                  /\ ~tasks[t].IsArchived})

\* WHERE is_archived = FALSE ORDER BY created_at DESC (ids grow with
\* creation).
GetAllTasks == Descending({t \in DOMAIN tasks : ~tasks[t].IsArchived})

\* ----- task.NotificationManager.CreateTaskReminder ------------------------
\* time.Until(t) as ScheduledAt keeps it: the time still to pass until t,
\* 0 if there is none.
Until(t) == IF t > 0 THEN t ELSE 0

\* NotificationService.CreateTaskReminder: the reminder email, scheduled
\* reminderMinutes before dueDate.
CreateTaskReminder(id, userID, taskID, dueDate, reminderMinutes) ==
    ScheduleNotification(
        id,
        [Notification(TypeEmail, "", 0, config.MaxRetries)
             EXCEPT !.UserID = userID, !.TaskID = taskID,
                    !.Trigger = TriggerDueDate],
        Until(dueDate - reminderMinutes))

\* NotificationManager.CreateTaskReminder: GetTask, the due date test, and
\* the service's CreateTaskReminder, whose result it returns.
ManagerCreateTaskReminder(userID, taskID, reminderMinutes) ==
    /\ ~panicked
    /\ IF taskID \notin DOMAIN tasks
       THEN /\ reminderResult' = "task not found"
            /\ UNCHANGED <<notif, nextId, timers, schedResult>>
       ELSE IF Len(tasks[taskID].DueDate) = 0
       THEN /\ reminderResult' = "task does not have a due date"
            /\ UNCHANGED <<notif, nextId, timers, schedResult>>
       ELSE /\ nextId <= MaxNotifs
            /\ nextId' = nextId + 1
            /\ CreateTaskReminder(nextId, userID, taskID,
                                  tasks[taskID].DueDate[1], reminderMinutes)
            /\ reminderResult' = "ok"
    /\ UNCHANGED <<config, queue, closed, cancelled, pool, stopPc, panicked,
                   result, afterStop, enq, deq, attempts, status, tasks,
                   schedPc, schedRows, schedCancelled>>

\* ----- Scheduler -----------------------------------------------------------
\* The lookahead of checkDueSoonTasks, 60 minutes, in units of model time.
ReminderHorizon == 2

\* The MaxRetries the sweep gives its notifications.
SweepMaxRetries == 3

\* The notification the sweep builds for a task row.
SweepNotification(task, trigger) ==
    [Notification(TypeEmail, "", 0, SweepMaxRetries)
         EXCEPT !.UserID = task.UserID[1], !.TaskID = task.ID,
                !.Trigger = trigger]

\* (mutant) a task due exactly at the horizon counts as due soon.
DueSoonInclusive(dueDate) == 0 < dueDate /\ dueDate <= ReminderHorizon

\* task.DueDate.After(now) && task.DueDate.Before(reminderTime), for a due
\* date read at now.
DueSoon(dueDate) == 0 < dueDate /\ dueDate < ReminderHorizon

\* Scheduler.Start: the ticker and the goroutine.
SchedulerStart ==
    /\ ~panicked
    /\ schedPc = "new"
    /\ schedPc' = "select"
    /\ UNCHANGED <<config, notif, nextId, queue, closed, cancelled, pool, stopPc,
                   timers, panicked, result, schedResult, afterStop, enq, deq,
                   attempts, status, tasks, reminderResult, schedRows,
                   schedCancelled>>

\* Scheduler.Stop: s.cancel(); s.wg.Wait() then only holds the caller until
\* the goroutine has returned.
SchedulerStop ==
    /\ ~panicked
    /\ ~schedCancelled
    /\ schedCancelled' = TRUE
    /\ UNCHANGED <<config, notif, nextId, queue, closed, cancelled, pool, stopPc,
                   timers, panicked, result, schedResult, afterStop, enq, deq,
                   attempts, status, tasks, reminderResult, schedPc, schedRows>>

\* select, case <-s.ctx.Done(): return.
SchedulerExit ==
    /\ ~panicked
    /\ schedPc = "select"
    /\ schedCancelled
    /\ schedPc' = "exited"
    /\ UNCHANGED <<config, notif, nextId, queue, closed, cancelled, pool, stopPc,
                   timers, panicked, result, schedResult, afterStop, enq, deq,
                   attempts, status, tasks, reminderResult, schedRows,
                   schedCancelled>>

\* select, case <-s.ticker.C: processScheduledNotifications begins with
\* checkOverdueTasks, which queries the overdue tasks.
TickerFires ==
    /\ ~panicked
    /\ schedPc = "select"
    /\ schedPc' = "overdue"
    /\ schedRows' = GetOverdueTasks
    /\ UNCHANGED <<config, notif, nextId, queue, closed, cancelled, pool, stopPc,
                   timers, panicked, result, schedResult, afterStop, enq, deq,
                   attempts, status, tasks, reminderResult, schedCancelled>>

\* One round of the loop of checkOverdueTasks: a row without a user is
\* skipped, for any other the overdue reminder is built and submitted; an
\* error SendNotification returns is logged.
SweepOverdue ==
    /\ ~panicked
    /\ schedPc = "overdue"
    /\ schedRows # <<>>
    /\ schedRows' = Tail(schedRows)
    /\ LET task == Head(schedRows)
       IN  IF Len(task.UserID) = 0
           THEN UNCHANGED <<notif, nextId, queue, panicked, result, afterStop, enq>>
           ELSE /\ nextId <= MaxNotifs
                /\ nextId' = nextId + 1
                /\ SendNotification(nextId, SweepNotification(task, TriggerOverdue))
    /\ UNCHANGED <<config, closed, cancelled, pool, stopPc, timers, schedResult,
                   deq, attempts, status, tasks, reminderResult, schedPc,
                   schedCancelled>>

\* checkOverdueTasks returns and checkDueSoonTasks queries all tasks and
\* reads the clock.
SweepDueSoonBegin ==
    /\ ~panicked
    /\ schedPc = "overdue"
    /\ schedRows = <<>>
    /\ schedPc' = "duesoon"
    /\ schedRows' = GetAllTasks
    /\ UNCHANGED <<config, notif, nextId, queue, closed, cancelled, pool, stopPc,
                   timers, panicked, result, schedResult, afterStop, enq, deq,
                   attempts, status, tasks, reminderResult, schedCancelled>>

\* One round of the loop of checkDueSoonTasks.
SweepDueSoon ==
    /\ ~panicked
    /\ schedPc = "duesoon"
    /\ schedRows # <<>>
    /\ schedRows' = Tail(schedRows)
    /\ LET task == Head(schedRows)
       IN  IF Len(task.DueDate) = 0 \/ Len(task.UserID) = 0
           THEN UNCHANGED <<notif, nextId, queue, panicked, result, afterStop, enq>>
           ELSE IF DueSoon(task.DueDate[1])
           THEN /\ nextId <= MaxNotifs
                /\ nextId' = nextId + 1
                /\ SendNotification(nextId, SweepNotification(task, TriggerDueDate))
           ELSE UNCHANGED <<notif, nextId, queue, panicked, result, afterStop, enq>>
    /\ UNCHANGED <<config, closed, cancelled, pool, stopPc, timers, schedResult,
                   deq, attempts, status, tasks, reminderResult, schedPc,
                   schedCancelled>>

\* checkDueSoonTasks returns, the two placeholder checks log a line, and the
\* goroutine is back at its select.
SweepEnd ==
    /\ ~panicked
    /\ schedPc = "duesoon"
    /\ schedRows = <<>>
    /\ schedPc' = "select"
    /\ UNCHANGED <<config, notif, nextId, queue, closed, cancelled, pool, stopPc,
                   timers, panicked, result, schedResult, afterStop, enq, deq,
                   attempts, status, tasks, reminderResult, schedRows,
                   schedCancelled>>

\* ----- the system ----------------------------------------------------------
WorkerStep ==
    \/ WorkerReceive
    \/ WorkerExit
    \/ \E id \in Ids : WorkerDeliver(id)
    \/ \E id \in Ids : WorkerRequeue(id)
    \/ \E id \in Ids : WorkerFinish(id)

\* An unrecovered panic ends the process: every action is guarded by
\* ~panicked, so nothing runs after it.
Next ==
    \/ \E n \in NotificationInputs : CallerSend(n)
    \/ \E reminderTime \in 0..MaxDelay : CallerSchedule(reminderTime)
    \/ \E id \in Ids : TimerFire(id)
    \/ WorkerStep
    \/ StopCancel
    \/ StopClose
    \/ StopAgain
    \/ Tick

Spec == Init /\ [][Next]_vars

\* The service with callers that submit, and a caller that reads the status.
StatusNext ==
    \/ \E n \in NotificationInputs : CallerSend(n)
    \/ WorkerStep
    \/ StopCancel
    \/ StopClose
    \/ CallGetQueueStatus

StatusSpec == Init /\ [][StatusNext]_vars

\* The tasks a NotificationManager finds: due MaxDelay from now (and overdue
\* once that time has passed), or without a due date.
ManagerTasks ==
    {Task(<<MaxDelay>>, <<1>>, TaskPending, FALSE),
     Task(<<>>, <<1>>, TaskPending, FALSE)}

\* The running service, with one worker, behind a NotificationManager.  A
\* reminder is delivered at its first attempt, so config.MaxRetries and
\* config.RetryDelay play no part and are left at 0.
ManagerInit ==
    /\ ServiceInit
    /\ config.WorkerCount = 1
    /\ config.MaxRetries = 0
    /\ config.RetryDelay = 0
    /\ CollaboratorsInit
    /\ tasks \in [TaskIds -> ManagerTasks]

\* The caller names a user that exists or user MaxUsers + 1, who does not,
\* and a task of the repository or task MaxTasks + 1, which is not in it.
ManagerNext ==
    \/ \E userID \in {MaxUsers, MaxUsers + 1}, taskID \in 1..(MaxTasks + 1),
          reminderMinutes \in 0..1 :
            ManagerCreateTaskReminder(userID, taskID, reminderMinutes)
    \/ \E id \in Ids : TimerFire(id)
    \/ Tick
    \/ WorkerReceive
    \/ \E id \in Ids : WorkerDeliver(id)

ManagerSpec == ManagerInit /\ [][ManagerNext]_vars

\* The tasks the sweep finds: overdue with and without a user, due soon and
\* completed, due at the horizon, without a due date, due soon and archived.
SweepTasks ==
    {Task(<<-1>>, <<1>>, TaskPending, FALSE),
     Task(<<-1>>, <<>>, TaskPending, FALSE),
     Task(<<1>>, <<1>>, TaskCompleted, FALSE),
     Task(<<ReminderHorizon>>, <<1>>, TaskPending, FALSE),
     Task(<<>>, <<1>>, TaskPending, FALSE),
     Task(<<1>>, <<1>>, TaskPending, TRUE)}

\* The service and a Scheduler.  The sweep's notifications carry their own
\* MaxRetries and are delivered at the first attempt, so config.MaxRetries
\* and config.RetryDelay play no part and are left at 0.  The ticks of the
\* ticker are close together on the scale of the due dates: the tasks stay
\* what they are from one sweep to the next.
SchedulerInit ==
    /\ ServiceInit
    /\ config.MaxRetries = 0
    /\ config.RetryDelay = 0
    /\ CollaboratorsInit
    /\ tasks \in [TaskIds -> SweepTasks]

SchedulerNext ==
    \/ SchedulerStart
    \/ SchedulerStop
    \/ SchedulerExit
    \/ TickerFires
    \/ SweepOverdue
    \/ SweepDueSoonBegin
    \/ SweepDueSoon
    \/ SweepEnd
    \/ WorkerReceive
    \/ WorkerExit
    \/ \E id \in Ids : WorkerDeliver(id)
    \/ StopCancel
    \/ StopClose

SchedulerSpec == SchedulerInit /\ [][SchedulerNext]_vars

\* ----- properties ----------------------------------------------------------
StopReturned == stopPc = "done"

\* A SendNotification call on id returns in this step.
Returns(id) == result[id] = "none" /\ result'[id] # "none"

\* C1: after Stop() has returned, every SendNotification call (a caller's or
\* a deferred timer's) returns ServiceStopped, enqueues nothing and does not
\* panic.
C1_AfterStopServiceStopped ==
    [][\A id \in Ids :
         (StopReturned /\ Returns(id)) =>
             (result'[id] = "stopped" /\ queue' = queue /\ ~panicked')]_vars

\* C2: while the service runs, SendNotification on a queue that holds
\* BatchSize notifications returns QueueFull and leaves the queue as it was,
\* and on a queue that holds fewer it returns success and appends the
\* notification; in both cases it returns in the step it is called.
C2_NonBlockingEnqueue ==
    [][\A id \in Ids :
         (~cancelled /\ Returns(id)) =>
             IF Len(queue) >= config.BatchSize
             THEN result'[id] = "full" /\ queue' = queue
             ELSE result'[id] = "ok" /\ queue' = Append(queue, id)]_vars

\* C2 witness: on a running service one call was refused with QueueFull on a
\* queue at capacity and another was accepted.
C2_Witness ==
    /\ ~cancelled
    /\ Len(queue) = config.BatchSize
    /\ \E i, j \in Ids : result[i] = "full" /\ result[j] = "ok"

\* C3: once Stop() has returned no channel sender is invoked and no worker
\* receives from the queue, whatever is still queued or submitted later.
C3_NoDeliveryAfterStop ==
    [][StopReturned => (attempts' = attempts /\ deq' = deq)]_vars

\* C3 witness: Stop() has returned with a notification still on the queue
\* and never received, and a deferred timer fired after that.
C3_Witness ==
    /\ StopReturned
    /\ \E id \in Ids : InQueue(id) /\ deq[id] = 0
    /\ \E id \in afterStop : notif[id].Status = StatusPending /\ result[id] = "stopped"

\* C4: every call to Stop() eventually returns.  Stated on finite runs: as
\* long as Stop() waits for the workers, Stop() can return or some worker
\* can take a step (callers and timers only ever add to the queue, so a
\* state where neither can move is one Stop() never leaves).
C4_StopEventuallyReturns ==
    (stopPc = "wait" /\ ~panicked) =>
        ENABLED (StopClose \/ WorkerStep)

\* C5: when Stop() has returned every worker has exited, none still holds a
\* notification, and every notification a worker ever received is Sent,
\* Failed, or Pending and back on the queue.
C5_NothingAbandonedAtStop ==
    StopReturned =>
        /\ BagToSet(pool) = {Exited}
        /\ \A id \in Ids : Holders(id) = 0
        /\ \A id \in Ids :
              deq[id] > 0 =>
                 \/ notif[id].Status \in {StatusSent, StatusFailed}
                 \/ notif[id].Status = StatusPending /\ InQueue(id)

\* C5 witness: Stop() has returned after a worker put a failed notification
\* back on the queue and a worker finished another one.
C5_Witness ==
    /\ StopReturned
    /\ \E id \in Ids : deq[id] > 0 /\ notif[id].Status = StatusPending /\ InQueue(id)
    /\ \E id \in Ids : notif[id].Status \in {StatusSent, StatusFailed}

\* C6: while the service is not stopped the pool never reaches a state in
\* which notifications are queued and no worker can take a step, so every
\* accepted notification is eventually received and reaches Sent or Failed.
C6_NoPoolDeadlock ==
    (~cancelled /\ Len(queue) > 0) => ENABLED WorkerStep

\* C7: no loss and no duplication between submitters and workers: every
\* notification has been received exactly once for each time it was put on
\* the queue, except for the copies still on the queue, and an accepted
\* notification was put on the queue.
C7_ExactlyOncePerEnqueue ==
    \A id \in Ids :
        /\ enq[id] = deq[id] + Occurrences(id)
        /\ result[id] = "ok" => enq[id] >= 1
        /\ result[id] \in {"none", "full", "stopped", "panic"} => enq[id] = 0

\* C7 witness: all MaxNotifs submissions were accepted and each has been
\* received exactly once, each by a worker of its own.
C7_Witness ==
    /\ \A id \in Ids : result[id] = "ok" /\ enq[id] = 1 /\ deq[id] = 1
    /\ \A id \in Ids : Holders(id) = 1

\* C8: a notification never has two writers: no two workers hold the same
\* notification at the same time (a worker that holds one still has a write
\* to it ahead: the status update or the final UpdatedAt).
C8_SingleWriter ==
    \A id \in Ids : Holders(id) <= 1

\* C9: every accepted notification has RetryCount <= MaxRetries.
C9_RetryCountBounded ==
    \A id \in Ids : result[id] = "ok" => notif[id].RetryCount <= notif[id].MaxRetries

\* C10: on a failed attempt, a notification whose RetryCount (before any
\* increment) is below MaxRetries gets RetryCount + 1, Pending, and is
\* re-submitted; one whose RetryCount equals MaxRetries becomes Failed, is
\* not re-submitted and keeps its RetryCount.
C10_RetryRule ==
    [][\A id \in Ids :
         (attempts'[id] = attempts[id] + 1 /\ Dispatch(notif[id]) # "") =>
             LET before == notif[id]
                 after == notif'[id]
                 resubmits == CopiesIn(Worker("requeue", id), pool')
                                  = CopiesIn(Worker("requeue", id), pool) + 1
             IN  IF before.RetryCount < before.MaxRetries
                 THEN /\ after.RetryCount = before.RetryCount + 1
                      /\ after.Status = StatusPending
                      /\ resubmits
                 ELSE /\ after.Status = StatusFailed
                      /\ after.RetryCount = before.RetryCount
                      /\ ~resubmits]_vars

\* C11: Failed is permanent: once a failed attempt has left a notification
\* Failed with its RetryCount at MaxRetries (or beyond), its Status stays
\* Failed, its Error stays the last failure message, it is not put on the
\* queue again and no sender is invoked for it again.
C11_FailedIsPermanent ==
    [][\A id \in Ids :
         (notif[id].Status = StatusFailed
              /\ notif[id].RetryCount >= notif[id].MaxRetries) =>
             /\ notif'[id].Status = StatusFailed
             /\ notif'[id].Error = notif[id].Error
             /\ notif[id].Error # ""
             /\ enq'[id] = enq[id]
             /\ deq'[id] = deq[id]
             /\ attempts'[id] = attempts[id]]_vars

\* C11 witness: a notification failed for good with RetryCount = MaxRetries
\* and its failure message recorded, and the service went on to deliver
\* another notification on a retry and to stop.
C11_Witness ==
    /\ StopReturned
    /\ \E id \in Ids :
          /\ notif[id].Status = StatusFailed
          /\ notif[id].RetryCount = notif[id].MaxRetries
          /\ notif[id].Error = "unsupported notification type"
          /\ \E other \in Ids \ {id} :
                notif[other].Status = StatusSent /\ attempts[other] = 2

\* C12: a notification that rests in Failed has RetryCount = MaxRetries, or
\* was rejected before any attempt and has RetryCount = 0.
C12_FailedMeansRetriesExhausted ==
    \A id \in Ids :
        notif[id].Status = StatusFailed =>
            \/ notif[id].RetryCount = notif[id].MaxRetries
            \/ notif[id].RetryCount = 0 /\ attempts[id] = 0

\* C13: a notification of an unsupported Type is processed exactly once: it
\* becomes Failed on its first processing, its RetryCount stays 0 and it is
\* never put on the queue again.
C13_UnsupportedTypeFailsOnce ==
    \A id \in Ids :
        (result[id] = "ok" /\ notif[id].Type \notin SupportedTypes) =>
            /\ notif[id].RetryCount = 0
            /\ enq[id] <= 1
            /\ deq[id] <= 1
            /\ attempts[id] > 0 => notif[id].Status = StatusFailed

\* C14: an Email notification with an empty Recipient fails on its first
\* attempt: after it, Status = Failed and RetryCount = 0; it is never Sent
\* and never retried.
C14_MissingRecipientFails ==
    \A id \in Ids :
        (notif[id].Type = TypeEmail /\ notif[id].Recipient = "") =>
            /\ notif[id].Status # StatusSent
            /\ ~notif[id].SentAt
            /\ notif[id].RetryCount = 0
            /\ enq[id] <= 1
            /\ attempts[id] > 0 => notif[id].Status = StatusFailed

\* C15: a notification that was delivered has Status = Sent, SentAt set and
\* an empty Error, also when failed attempts went before the delivery.
C15_SentHasNoError ==
    \A id \in Ids :
        (notif[id].Status = StatusSent \/ notif[id].SentAt) =>
            /\ notif[id].Status = StatusSent
            /\ notif[id].SentAt
            /\ notif[id].Error = ""

\* C16: delivery is at most once: once a notification is Sent its Status
\* never changes, it is not put on the queue again, no worker receives it
\* and no sender is invoked for it again (so at most one invocation
\* succeeds).
C16_AtMostOnce ==
    [][\A id \in Ids :
         notif[id].Status = StatusSent =>
             /\ notif'[id].Status = StatusSent
             /\ enq'[id] = enq[id]
             /\ deq'[id] = deq[id]
             /\ attempts'[id] = attempts[id]
             /\ ~InQueue(id)]_vars

\* C16 witness: a notification was delivered on its second attempt, after a
\* retry, while the worker that had put it back on the queue still holds it,
\* and the other notification was delivered too.
C16_Witness ==
    \E id \in Ids :
        /\ notif[id].Status = StatusSent
        /\ attempts[id] = 2
        /\ enq[id] = 2
        /\ BagIn(Worker("final", id), pool)
        /\ \E other \in Ids \ {id} : notif[other].Status = StatusSent

\* C17: a notification that was put back on the queue for a retry is not
\* handed to a sender before the ScheduledAt recorded for the retry, that is
\* before RetryDelay has passed since the failed attempt.
C17_RetryWaitsForDelay ==
    [][\A id \in Ids :
         (attempts'[id] = attempts[id] + 1 /\ enq[id] >= 2) =>
             notif[id].ScheduledAt = 0]_vars

\* C18: ScheduleNotification(n, at) with at in the future records
\* ScheduledAt = at and returns nil in the step it is called, no time
\* passing and the queue untouched; the notification is put on the queue
\* only once its ScheduledAt has been reached, and no worker sees it before.
C18_ScheduledNotBeforeAt ==
    [][/\ \A at \in 1..MaxDelay :
             CallerSchedule(at) =>
                 /\ notif'[nextId].ScheduledAt = at
                 /\ schedResult'[nextId] = "ok"
                 /\ queue' = queue
                 /\ \A id \in Ids \ {nextId} : notif'[id] = notif[id]
       /\ \A id \in Ids :
             schedResult[id] = "ok" =>
                 /\ enq[id] = 0 => ~InQueue(id) /\ deq[id] = 0 /\ attempts[id] = 0
                 /\ (enq[id] = 0 /\ enq'[id] > 0) => notif[id].ScheduledAt = 0]_vars

\* C18 witness: one scheduled notification is still waiting for its time,
\* which lies in the future, and is not on the queue, while another
\* scheduled one, whose time has come, has been queued and received.
C18_Witness ==
    /\ \E id \in timers :
          schedResult[id] = "ok" /\ notif[id].ScheduledAt > 0 /\ enq[id] = 0
    /\ \E id \in Ids :
          /\ schedResult[id] = "ok" /\ result[id] = "ok" /\ deq[id] = 1
          /\ notif[id].ScheduledAt = 0

\* C19: ScheduleNotification(n, at) with at in the past does what
\* SendNotification(n) does from the same state: on a running service it
\* returns QueueFull and leaves a full queue as it is, or returns success
\* with n appended to the queue; on a stopped one it returns ServiceStopped.
C19_PastScheduleIsSend ==
    [][CallerSchedule(0) =>
          IF cancelled
          THEN schedResult'[nextId] = "stopped" /\ queue' = queue
          ELSE IF Len(queue) >= config.BatchSize
               THEN schedResult'[nextId] = "full" /\ queue' = queue
               ELSE schedResult'[nextId] = "ok"
                        /\ queue' = Append(queue, nextId)]_vars

\* C20: ScheduleNotification called after Stop() has returned gives its
\* caller the ServiceStopped error and starts no deferred delivery.
C20_ScheduleAfterStopRefused ==
    [][\A at \in 0..MaxDelay :
         (StopReturned /\ CallerSchedule(at)) =>
             schedResult'[nextId] = "stopped" /\ timers' = timers]_vars

\* C21: the queue never holds more than BatchSize notifications, whether
\* they were put there by SendNotification or by a worker's retry.
C21_QueueBounded ==
    Len(queue) <= config.BatchSize

\* C21 witness: the queue is at capacity with a notification a worker put
\* back for a retry, while another worker waits to put back a second one.
C21_Witness ==
    /\ Len(queue) = config.BatchSize
    /\ \E id \in Ids : InQueue(id) /\ enq[id] = 2
    /\ \E id \in Ids : BagIn(Worker("requeue", id), pool)

\* What SendNotification makes of the notification n it is handed: an unset
\* MaxRetries becomes the configured one and an unset CreatedAt the current
\* time, a MaxRetries or CreatedAt that is set stays, and RetryCount, Status
\* and Type are not written.
Defaulted(n, after) ==
    /\ n.MaxRetries = 0 => after.MaxRetries = config.MaxRetries
    /\ n.MaxRetries # 0 => after.MaxRetries = n.MaxRetries
    /\ n.CreatedAt = ZeroTime => after.CreatedAt = ServiceInstant
    /\ n.CreatedAt # ZeroTime => after.CreatedAt = n.CreatedAt
    /\ after.RetryCount = n.RetryCount
    /\ after.Status = n.Status
    /\ after.Type = n.Type

\* C22: SendNotification, called by a caller or by a deferred goroutine,
\* gives an unset MaxRetries the configured value and an unset CreatedAt
\* the current time, leaves a MaxRetries or CreatedAt that is set as it is,
\* and does not change RetryCount, Status or Type.
C22_DefaultsApplied ==
    [][result' # result =>
          /\ \A n \in NotificationInputs :
                CallerSend(n) => Defaulted(n, notif'[nextId])
          /\ \A id \in timers :
                TimerFire(id) => Defaulted(notif[id], notif'[id])]_vars

\* C22 witness: one submitted notification kept the MaxRetries and CreatedAt
\* its caller had set, another got the configured MaxRetries and the
\* service's time; no worker has touched either yet.
C22_Witness ==
    \E i, j \in Ids :
        /\ result[i] # "none" /\ deq[i] = 0
        /\ notif[i].MaxRetries = HighPriorityMaxRetries
        /\ notif[i].CreatedAt = CallerInstant
        /\ notif[i].RetryCount = 3
        /\ result[j] # "none" /\ deq[j] = 0
        /\ notif[j].Type \notin SupportedTypes
        /\ config.MaxRetries > 0
        /\ notif[j].MaxRetries = config.MaxRetries
        /\ notif[j].CreatedAt = ServiceInstant

\* C27: once Stop() has cancelled the context no SendNotification call
\* returns success or adds to the queue, whether or not Stop() has returned
\* and whether or not the queue has room.
C27_NoAcceptAfterCancel ==
    [][\A id \in Ids :
         (cancelled /\ Returns(id)) =>
             (result'[id] # "ok" /\ queue' = queue)]_vars

\* C28: Stop() closes the queue only after it has cancelled the context and
\* every worker has exited, so no worker ever receives from the closed
\* queue, a nil notification in particular.
C28_NoReceiveFromClosedQueue ==
    [][/\ (~closed /\ closed') =>
             (cancelled /\ CopiesIn(Exited, pool) = config.WorkerCount)
       /\ closed => (~WorkerReceive /\ pool' = pool /\ deq' = deq)]_vars

\* C28 witness: Stop() has closed the queue while notifications were still
\* on it, after the workers had received others.
C28_Witness ==
    /\ closed
    /\ Len(queue) > 0
    /\ \E id \in Ids : deq[id] > 0
    /\ BagToSet(pool) = {Exited}

\* C29: a second Stop() on a stopped service returns normally: it does not
\* panic and leaves the service stopped as it was.
C29_StopIdempotent ==
    [][StopAgain => (~panicked' /\ closed' /\ cancelled' /\ queue' = queue)]_vars

\* C30: a notification that failed with retries left is never lost: it is
\* on the queue or with a worker, and while Stop() has not been called the
\* worker that waits to put it back can do so, or some worker can receive
\* and make room for it.
C30_RetryNeverLost ==
    \A id \in Ids :
        /\ (notif[id].Status = StatusPending /\ deq[id] > 0) =>
               (InQueue(id) \/ Holders(id) > 0)
        /\ (~cancelled /\ BagIn(Worker("requeue", id), pool)) =>
               ENABLED (WorkerRequeue(id) \/ WorkerReceive)

\* A SendNotification call for a notification of task taskID with the given
\* trigger is made in this step, and no other.
SweepCalls(taskID, trigger) ==
    /\ nextId' = nextId + 1
    /\ result[nextId] = "none" /\ result'[nextId] # "none"
    /\ notif'[nextId].TaskID = taskID
    /\ notif'[nextId].Trigger = trigger
    /\ \A id \in Ids \ {nextId} : result'[id] = result[id]

\* No SendNotification call is made in this step.
SweepCallsNothing ==
    nextId' = nextId /\ result' = result /\ queue' = queue

\* C23: GetQueueStatus changes nothing of the service and reports the number
\* of queued notifications, the configured WorkerCount, and is_running
\* true exactly as long as Stop() has not signalled the shutdown.
C23_QueueStatusSnapshot ==
    [][CallGetQueueStatus =>
          /\ status'.queue_length = Len(queue)
          /\ status'.worker_count = config.WorkerCount
          /\ status'.is_running = (stopPc = "idle")
          /\ UNCHANGED <<config, notif, nextId, queue, closed, cancelled, pool,
                         stopPc, timers, panicked, result, enq, deq, attempts>>]_vars

\* C23 witness: the status was read between Stop()'s cancel and its close,
\* when a worker had already exited and the queue was at capacity.
C23_Witness ==
    /\ status = [queue_length |-> config.BatchSize,
                 worker_count |-> config.WorkerCount, is_running |-> FALSE]
    /\ stopPc = "wait"
    /\ BagIn(Exited, pool)
    /\ Len(queue) = config.BatchSize

\* C24: a sweep goes through every overdue task and through every task of
\* the repository; it calls SendNotification once with trigger Overdue for
\* each overdue task that has a user and once with trigger DueDate for each
\* task that has a user and a due date strictly between now and the
\* horizon, and for no other; every sweep does so again, and an error a
\* call returns does not keep the sweep from the remaining tasks.
C24_SweepNotifiesEachQualifyingTask ==
    [][/\ TickerFires =>
             /\ {schedRows'[i].ID : i \in 1..Len(schedRows')} =
                    {t \in TaskIds : /\ Len(tasks[t].DueDate) = 1
                                     /\ tasks[t].DueDate[1] < 0
                                     /\ tasks[t].Status # TaskCompleted
                                     /\ ~tasks[t].IsArchived}
             /\ \A i, j \in 1..Len(schedRows') :
                    schedRows'[i].ID = schedRows'[j].ID => i = j
       /\ SweepDueSoonBegin =>
             /\ {schedRows'[i].ID : i \in 1..Len(schedRows')} =
                    {t \in TaskIds : ~tasks[t].IsArchived}
             /\ \A i, j \in 1..Len(schedRows') :
                    schedRows'[i].ID = schedRows'[j].ID => i = j
             /\ \A i \in 1..Len(schedRows') :
                    schedRows'[i].DueDate = tasks[schedRows'[i].ID].DueDate
       /\ SweepOverdue =>
             LET task == Head(schedRows)
             IN  /\ IF tasks[task.ID].UserID # <<>>
                    THEN SweepCalls(task.ID, TriggerOverdue)
                    ELSE SweepCallsNothing
                 /\ ~panicked' => schedRows' = Tail(schedRows) /\ schedPc' = schedPc
       /\ SweepDueSoon =>
             LET task == Head(schedRows)
             IN  /\ IF /\ tasks[task.ID].UserID # <<>>
                       /\ task.DueDate # <<>>
                       /\ 0 < task.DueDate[1]
                       /\ task.DueDate[1] < ReminderHorizon
                    THEN SweepCalls(task.ID, TriggerDueDate)
                    ELSE SweepCallsNothing
                 /\ ~panicked' => schedRows' = Tail(schedRows) /\ schedPc' = schedPc]_vars

\* C24 witness: a sweep notified an overdue task, the next sweep notified
\* the same task again, was refused with QueueFull, and went on to its end.
C24_Witness ==
    \E i, j \in Ids :
        /\ i < j
        /\ result[i] = "ok" /\ result[j] = "full"
        /\ notif[i].TaskID = notif[j].TaskID
        /\ notif[i].Trigger = TriggerOverdue /\ notif[j].Trigger = TriggerOverdue
        /\ schedPc = "select"

\* C25: once the service's Stop() has returned the Scheduler's loop has
\* ended: no sweep begins or goes on and no call of a sweep reaches the
\* stopped service.
C25_StopEndsSweep ==
    [][StopReturned =>
          /\ ~(TickerFires \/ SweepOverdue \/ SweepDueSoon)
          /\ nextId' = nextId]_vars

\* C26: NotificationManager.CreateTaskReminder returns an error and neither
\* queues nor schedules anything when the task does not exist or has no due
\* date; otherwise it schedules exactly one reminder, for that task and the
\* given user, and returns nil, whether or not the user exists.
C26_ReminderNeedsTaskWithDueDate ==
    [][(reminderResult' # reminderResult \/ nextId' # nextId) =>
          \A userID \in {MaxUsers, MaxUsers + 1}, taskID \in 1..(MaxTasks + 1),
             reminderMinutes \in 0..1 :
               ManagerCreateTaskReminder(userID, taskID, reminderMinutes) =>
                  IF taskID \notin TaskIds \/ tasks[taskID].DueDate = <<>>
                  THEN /\ reminderResult' \notin {"none", "ok"}
                       /\ UNCHANGED <<queue, timers, notif, nextId, enq, schedResult>>
                  ELSE /\ reminderResult' = "ok"
                       /\ nextId \notin timers
                       /\ timers' = timers \cup {nextId}
                       /\ nextId' = nextId + 1
                       /\ notif'[nextId].TaskID = taskID
                       /\ notif'[nextId].UserID = userID
                       /\ \A id \in Ids \ {nextId} : notif'[id] = notif[id]
                       /\ queue' = queue]_vars

\* C26 witness: a reminder was scheduled for a user that does not exist,
\* and a later call for a task without a due date returned its error and
\* scheduled nothing.
C26_Witness ==
    /\ reminderResult = "task does not have a due date"
    /\ nextId = 2
    /\ schedResult[1] = "ok"
    /\ notif[1].UserID \notin Users
    /\ timers = {1}

====
